---- MODULE Spec2Model ----
(***************************************************************************)
(* Model of lopocs/itowns.py: the iTowns/Potree octree protocol of LOPoCS. *)
(*                                                                         *)
(* Number representation.  Python floats are modelled by exact integers:   *)
(* box coordinates are integers in units small enough that every halving   *)
(* performed by get_child is exact, and the quotient npoints / psize of    *)
(* octree() (true division, Python 3) is kept as an exact fraction.        *)
(* The point store is an external collaborator: its answers are inputs.    *)
(***************************************************************************)
EXTENDS Integers, Sequences, FiniteSets

VARIABLES
    box,        \* decode_bbox: the local `root`, the box decoded so far
    path,       \* decode_bbox: the digits of bbox_encoded consumed so far
    session,    \* Session fields read by this file
    lod,        \* argument of the last compute_psize call
    psize,      \* result of the last compute_psize call
    store,      \* content of the point store, as seen through its queries
    request,    \* parameters of the HTTP request being served
    response,   \* outcome of the request handler
    trace       \* what the handler did: dict entries, estimator calls, nodes visited

vars == <<box, path, session, lod, psize, store, request, response, trace>>

\* ------------------------------------------------------------------ bounds
MaxAddr == 2        \* longest address decoded by decode_bbox
MaxLod == 4         \* deepest lod given to compute_psize on its own
MaxHrcLod == 2      \* deepest starting lod of a hierarchy / tile request
MaxLog == 3         \* largest result of round(log8(.)) that is looked for

\* ---------------------------------------------------------------- constants
SKIP_LOD_POINT_LIMIT == 60000
NODE_POINT_LIMIT == 20000
DEPTH_MAX == 2

Digits == 0..7

Max(a, b) == IF a >= b THEN a ELSE b
Min(a, b) == IF a <= b THEN a ELSE b

\* ------------------------------------------------------------------- boxes
the_bbox(xmin, ymin, zmin, xmax, ymax, zmax) ==
    [xmin |-> xmin, ymin |-> ymin, zmin |-> zmin,
     xmax |-> xmax, ymax |-> ymax, zmax |-> zmax]

\* (a - b) / 2 on floats; exact on the coordinates the model uses
half(a, b) == (a - b) \div 2

half_size(parent) ==
    << half(parent.xmax, parent.xmin),
       half(parent.ymax, parent.ymin),
       half(parent.zmax, parent.zmin) >>

get_child_swapped(parent, numchild) ==
    LET hs == half_size(parent)
        hx == (numchild % 2) = 1
        hy == ((numchild \div 2) % 2) = 1
        hz == ((numchild \div 4) % 2) = 1
    IN  the_bbox(IF hx THEN parent.xmin + hs[1] ELSE parent.xmin,
                 IF hy THEN parent.ymin + hs[2] ELSE parent.ymin,
                 IF hz THEN parent.zmin + hs[3] ELSE parent.zmin,
                 IF hx THEN parent.xmax ELSE parent.xmin + hs[1],
                 IF hy THEN parent.ymax ELSE parent.ymin + hs[2],
                 IF hz THEN parent.zmax ELSE parent.zmin + hs[3])

get_child_overlap(parent, numchild) ==
    LET hs == half_size(parent)
        hx == ((numchild \div 4) % 2) = 1
        hy == ((numchild \div 2) % 2) = 1
        hz == (numchild % 2) = 1
    IN  the_bbox(IF hx THEN parent.xmin + hs[1] ELSE parent.xmin,
                 IF hy THEN parent.ymin + hs[2] ELSE parent.ymin,
                 parent.zmin,
                 IF hx THEN parent.xmax ELSE parent.xmin + hs[1],
                 IF hy THEN parent.ymax ELSE parent.ymin + hs[2],
                 IF hz THEN parent.zmax ELSE parent.zmin + hs[3])

get_child(parent, numchild) ==
    LET hs == half_size(parent) IN
    CASE numchild = 0 ->
           the_bbox(parent.xmin, parent.ymin, parent.zmin,
                    parent.xmin + hs[1], parent.ymin + hs[2], parent.zmin + hs[3])
      [] numchild = 1 ->
           the_bbox(parent.xmin, parent.ymin, parent.zmin + hs[3],
                    parent.xmin + hs[1], parent.ymin + hs[2], parent.zmax)
      [] numchild = 2 ->
           the_bbox(parent.xmin, parent.ymin + hs[2], parent.zmin,
                    parent.xmin + hs[1], parent.ymax, parent.zmin + hs[3])
      [] numchild = 3 ->
           the_bbox(parent.xmin, parent.ymin + hs[2], parent.zmin + hs[3],
                    parent.xmin + hs[1], parent.ymax, parent.zmax)
      [] numchild = 4 ->
           the_bbox(parent.xmin + hs[1], parent.ymin, parent.zmin,
                    parent.xmax, parent.ymin + hs[2], parent.zmin + hs[3])
      [] numchild = 5 ->
           the_bbox(parent.xmin + hs[1], parent.ymin, parent.zmin + hs[3],
                    parent.xmax, parent.ymin + hs[2], parent.zmax)
      [] numchild = 6 ->
           the_bbox(parent.xmin + hs[1], parent.ymin + hs[2], parent.zmin,
                    parent.xmax, parent.ymax, parent.zmin + hs[3])
      [] numchild = 7 ->
           the_bbox(parent.xmin + hs[1], parent.ymin + hs[2], parent.zmin + hs[3],
                    parent.xmax, parent.ymax, parent.zmax)

RECURSIVE decode_bbox(_, _)
decode_bbox(root, bbox) ==
    IF bbox = <<>> THEN root
    ELSE decode_bbox(get_child(root, Head(bbox)), Tail(bbox))

\* ------------------------------------------------------------ lod planner
RECURSIVE Pow(_, _)
Pow(b, e) == IF e = 0 THEN 1 ELSE b * Pow(b, e - 1)

\* int(pow(8, power))
IntPow8(power) == IF power < 0 THEN 0 ELSE Pow(8, power)

RECURSIVE Gcd(_, _)
Gcd(a, b) == IF b = 0 THEN a ELSE Gcd(b, a % b)

\* int(round(log(num / den, 8))) for num / den >= 1: the number of k >= 1
\* with 8^(k - 1/2) <= num / den, that is 8^(2k-1) <= (num / den)^2
RoundLog8(num, den) ==
    LET g == Gcd(num, den)
        a == num \div g
        b == den \div g
        q == (a * a) \div (b * b)
    IN  Cardinality({k \in 1..MaxLog : Pow(8, 2 * k - 1) <= q})

threshold(nbpoints, patch_size, limit) ==
    IF nbpoints < limit * patch_size THEN -1
    ELSE RoundLog8(nbpoints, patch_size * limit)

prepare_session_lod_threshold(s) ==
    [nbpoints |-> s.nbpoints,
     patch_size |-> s.patch_size,
     boundingbox |-> s.boundingbox,
     psize_threshold1 |-> threshold(s.nbpoints, s.patch_size, SKIP_LOD_POINT_LIMIT),
     psize_threshold2 |-> threshold(s.nbpoints, s.patch_size, NODE_POINT_LIMIT)]

compute_psize_noskip(s, l) ==
    IF l <= s.psize_threshold2 THEN 1
    ELSE IntPow8(l - (IF s.psize_threshold2 >= 0 THEN s.psize_threshold2 + 1 ELSE 0))

compute_psize(s, l) ==
    IF l <= s.psize_threshold1 THEN 0
    ELSE IF l <= s.psize_threshold2 THEN 1
    ELSE IntPow8(l - (IF s.psize_threshold2 >= 0 THEN s.psize_threshold2 + 1 ELSE 0))

\* sum(compute_psize(session, l) for l in range(lod))
RECURSIVE sum_psize(_, _)
sum_psize(s, l) ==
    IF l <= 0 THEN 0 ELSE compute_psize(s, l - 1) + sum_psize(s, l - 1)

\* ------------------------------------------------------------- estimator
\* a row of a store query: <<>> is SQL NULL, <<n>> the value n
OrZero(row) == IF row = <<>> THEN 0 ELSE row[1]

\* the answer of the store to HIERARCHY_QUERY for the node `rel` levels below
\* the requested one; rel = <<>> is the requested node itself
StoreCount(st, rel) ==
    IF rel = <<>> THEN st.root
    ELSE st.levels[Min(Len(rel), Len(st.levels))][rel[Len(rel)] + 1]

\* start and count as get_numpoints computes them
numpoints_range(s, l, patch_size) ==
    LET ps == compute_psize(s, l)
        start == 1 + sum_psize(s, l)
    IN  [start |-> start,
         count |-> IF ps <= patch_size - start THEN ps ELSE patch_size - start]

get_numpoints(s, st, cbox, l, patch_size, rel) ==
    IF compute_psize(s, l) = 0
    THEN [name |-> rel, box |-> cbox, lod |-> l, queried |-> FALSE,
          start |-> 0, count |-> 0, ret |-> -1]
    ELSE LET r == numpoints_range(s, l, patch_size)
         IN  [name |-> rel, box |-> cbox, lod |-> l, queried |-> TRUE,
              start |-> r.start, count |-> r.count,
              ret |-> OrZero(StoreCount(st, rel))]

\* ------------------------------------------------------ hierarchy builder
\* estimate_total as the exact fraction num / den
estimate_total(s, ps, npoints, l, patch_size) ==
    IF ps # 0
    THEN [num |-> npoints * patch_size - npoints * sum_psize(s, l), den |-> ps]
    ELSE [num |-> NODE_POINT_LIMIT, den |-> 1]

\* estimate_total < NODE_POINT_LIMIT
stop_subdividing_loose(est) == (est.num \div est.den) <= NODE_POINT_LIMIT

stop_subdividing(est) == (est.num \div est.den) < NODE_POINT_LIMIT

\* int(estimate_total): truncation towards zero
int_estimate(est) ==
    IF est.num >= 0 THEN est.num \div est.den ELSE -((-est.num) \div est.den)

\* cnpoints != 0
child_present(cnpoints) == cnpoints # 0

\* depth < depth_max
descend_deeper(depth, depth_max) == depth <= depth_max

descend(depth, depth_max) == depth < depth_max

NoChild == [i \in 1..8 |-> 0]

RECURSIVE octree(_, _, _, _, _, _, _, _, _)
RECURSIVE octree_children(_, _, _, _, _, _, _, _, _)

\* the body of `for child in range(8)` for the children child..7
octree_children(s, st, depth, depth_max, bx, l, patch_size, name, child) ==
    IF child = 8 THEN [bitarray |-> NoChild, buffer |-> <<>>, calls |-> <<>>, visits |-> <<>>]
    ELSE
        LET cbox == get_child(bx, child)
            call == get_numpoints(s, st, cbox, l + 1, patch_size, Append(name, child))
            sub == IF child_present(call.ret) /\ descend(depth, depth_max)
                   THEN octree(s, st, depth + 1, depth_max, cbox, call.ret, l + 1,
                               patch_size, Append(name, child))
                   ELSE [buffer |-> <<>>, calls |-> <<>>, visits |-> <<>>]
            rest == octree_children(s, st, depth, depth_max, bx, l, patch_size, name, child + 1)
        IN  [bitarray |-> [rest.bitarray EXCEPT
                             ![child + 1] = IF child_present(call.ret) THEN 1 ELSE 0],
             buffer |-> sub.buffer \o rest.buffer,
             calls |-> <<call>> \o sub.calls \o rest.calls,
             visits |-> sub.visits \o rest.visits]

\* octree(): buffer is the dict in insertion order; calls and visits record
\* the get_numpoints calls and the octree invocations, in order
octree(s, st, depth, depth_max, bx, npoints, l, patch_size, name) ==
    LET ps == compute_psize(s, l)
        np == IF npoints < 0 THEN 0 ELSE npoints
        est == estimate_total(s, ps, np, l, patch_size)
        visit == [name |-> name, depth |-> depth, lod |-> l, npoints |-> np]
    IN  IF stop_subdividing(est)
        THEN [buffer |-> << [name |-> name, bitarray |-> NoChild, n |-> int_estimate(est)] >>,
              calls |-> <<>>,
              visits |-> <<visit>>]
        ELSE LET r == octree_children(s, st, depth, depth_max, bx, l, patch_size, name, 0)
             IN  [buffer |-> Append(r.buffer, [name |-> name, bitarray |-> r.bitarray, n |-> np]),
                  calls |-> r.calls,
                  visits |-> <<visit>> \o r.visits]

\* ------------------------------------------------------------ serialization
RECURSIVE lex_less(_, _)
lex_less(a, b) ==
    IF a = <<>> THEN b # <<>>
    ELSE IF b = <<>> THEN FALSE
    ELSE IF Head(a) # Head(b) THEN Head(a) < Head(b)
    ELSE lex_less(Tail(a), Tail(b))

\* key=lambda x: (len(x), x)
key_less_len_only(a, b) == Len(a) < Len(b)

key_less(a, b) == Len(a) < Len(b) \/ (Len(a) = Len(b) /\ lex_less(a, b))

\* sorted(keys, key=...): a stable sort; place[j] is where keys[j] goes
sorted(keys) ==
    LET n == Len(keys)
        place == <<>> \o [j \in 1..n |->
                    1 + Cardinality({i \in 1..n :
                            \/ key_less(keys[i], keys[j])
                            \/ (~key_less(keys[j], keys[i]) /\ i < j)})]
    IN  <<>> \o [p \in 1..n |-> keys[CHOOSE j \in 1..n : place[j] = p]]

\* int(''.join(bitarray)[::-1], 2)
RECURSIVE int_base2(_)
int_base2(str) ==
    IF str = <<>> THEN 0 ELSE 2 * int_base2(SubSeq(str, 1, Len(str) - 1)) + str[Len(str)]

reversed(str) == [i \in 1..Len(str) |-> str[Len(str) + 1 - i]]

bitmask_unreversed(bitarray) == int_base2(bitarray)

bitmask(bitarray) == int_base2(reversed(bitarray))

\* Struct('I').pack accepts 0 .. 2^32 - 1; the model's integers stay below 2^31
packable(n) == n >= 0

\* Struct('I').pack(n), least significant byte first
binfloat_pack(n) ==
    << n % 256, (n \div 256) % 256, (n \div 65536) % 256, (n \div 16777216) % 256 >>

binchar_pack(n) == <<n>>

dict_keys(buffer) == <<>> \o [i \in 1..Len(buffer) |-> buffer[i].name]

dict_get(buffer, key) == buffer[CHOOSE i \in 1..Len(buffer) : buffer[i].name = key]

\* binchar.pack(...) + binfloat.pack(...) of one dict entry
pack_record(e) == binchar_pack(bitmask(e.bitarray)) \o binfloat_pack(e.n)

\* b''.join([... for key in sorted_keys])
join_records(buffer, keys) ==
    LET recs == <<>> \o [k \in 1..Len(keys) |-> pack_record(dict_get(buffer, keys[k]))]
    IN  <<>> \o [i \in 1..(5 * Len(keys)) |-> recs[((i - 1) \div 5) + 1][((i - 1) % 5) + 1]]

\* the tail of octree() at depth 0; struct.error when a count cannot be packed
serialize(buffer) ==
    IF \E i \in 1..Len(buffer) : ~packable(buffer[i].n)
    THEN [status |-> "struct.error", output |-> <<>>]
    ELSE [status |-> "200", output |-> join_records(buffer, sorted(dict_keys(buffer)))]

\* ---------------------------------------------------------------- requests
DigitChar == <<"0", "1", "2", "3", "4", "5", "6", "7">>

is_strip_char(c) == c \in {"r", "."}

\* bbox_encoded.strip('r.')
RECURSIVE lstrip(_)
lstrip(str) ==
    IF str # <<>> /\ is_strip_char(Head(str)) THEN lstrip(Tail(str)) ELSE str

RECURSIVE rstrip(_)
rstrip(str) ==
    IF str # <<>> /\ is_strip_char(str[Len(str)])
    THEN rstrip(SubSeq(str, 1, Len(str) - 1)) ELSE str

strip(str) == rstrip(lstrip(str))

\* [int(l) for l in bbox]
int_digits(str) ==
    [i \in 1..Len(str) |-> (CHOOSE d \in 1..8 : DigitChar[d] = str[i]) - 1]

session_root(s) ==
    the_bbox(s.boundingbox.xmin, s.boundingbox.ymin, s.boundingbox.zmin,
             s.boundingbox.xmax, s.boundingbox.ymax, s.boundingbox.zmax)

\* ItownsHrc, from the request to the response
itowns_hrc(s0, st, req) ==
    LET s == prepare_session_lod_threshold(s0)
        bbox_encoded == strip(req.bbox_encoded)
        l == Len(bbox_encoded)
        bx == decode_bbox(session_root(s0), int_digits(bbox_encoded))
        patch_size == s.patch_size
        first == get_numpoints(s, st, bx, l, patch_size, <<>>)
        t == octree(s, st, 0, DEPTH_MAX, bx, first.ret, l, patch_size, <<>>)
    IN  [session |-> s,
         response |-> serialize(t.buffer),
         trace |-> [first |-> first, buffer |-> t.buffer, calls |-> t.calls,
                    visits |-> t.visits]]

\* ------------------------------------------------------------ tile reader
\* start and count as sql_query computes them
sql_query(s, l, isleaf) ==
    LET patch_size == s.patch_size
        ps == compute_psize(s, l)
        start == 1 + sum_psize(s, l)
        count == IF ps <= patch_size - start THEN ps ELSE patch_size - start
    IN  [start |-> start, count |-> IF isleaf THEN patch_size - start ELSE count]

\* utils.read_uncompressed_patch: a NULL patch cannot be decoded
read_uncompressed_patch(pcpatch_wkb) ==
    IF pcpatch_wkb = <<>>
    THEN [raised |-> "TypeError", points |-> <<>>]
    ELSE [raised |-> "", points |-> pcpatch_wkb[1]]

\* exact on the scales and offsets the model uses
box_reduced(bx, scales, offsets) ==
    the_bbox((bx.xmin - offsets[1]) \div scales[1],
             (bx.ymin - offsets[2]) \div scales[2],
             (bx.zmin - offsets[3]) \div scales[3],
             (bx.xmax - offsets[1]) \div scales[1],
             (bx.ymax - offsets[2]) \div scales[2],
             (bx.zmax - offsets[3]) \div scales[3])

RECURSIVE select_seq(_, _)
select_seq(seq, keep) ==
    IF seq = <<>> THEN <<>>
    ELSE IF keep[1]
         THEN <<Head(seq)>> \o select_seq(Tail(seq), Tail(keep))
         ELSE select_seq(Tail(seq), Tail(keep))

filter_on_xyz(points, bx) ==
    select_seq(points,
        [i \in 1..Len(points) |->
            /\ points[i].X > bx.xmin /\ points[i].X < bx.xmax
            /\ points[i].Y > bx.ymin /\ points[i].Y < bx.ymax
            /\ points[i].Z > bx.zmin /\ points[i].Z < bx.zmax])

classification_to_rgb(points) ==
    [i \in 1..Len(points) |->
        LET c == points[i].Classification IN
        CASE c = 6 -> <<186, 79, 63, 1>>
          [] c = 5 -> <<140, 156, 8, 1>>
          [] c = 4 -> <<171, 200, 116, 1>>
          [] c = 3 -> <<192, 213, 160, 1>>
          [] c = 9 -> <<141, 179, 198, 1>>
          [] c = 2 -> <<226, 230, 229, 1>>
          [] c = 1 -> <<176, 185, 182, 1>>
          [] OTHER -> <<0, 0, 0, 1>>]

RECURSIVE seq_min(_)
seq_min(seq) ==
    IF Len(seq) = 1 THEN seq[1] ELSE Min(Head(seq), seq_min(Tail(seq)))

RECURSIVE seq_max(_)
seq_max(seq) ==
    IF Len(seq) = 1 THEN seq[1] ELSE Max(Head(seq), seq_max(Tail(seq)))

column(points, f) == [i \in 1..Len(points) |-> points[i][f]]

\* the outcomes numpy can give to points[['Red','Green','Blue']].astype(cdt),
\* a cast of three fields to the four fields of cdt
CastOutcomes == {"", "TypeError", "ValueError"}

\* get_points after the query: shuffled is the patch as np.random.shuffle
\* left it, cast the outcome of the direct colour cast
get_points(bx, offsets, scales, patch, shuffled, cast) ==
    IF patch.raised # "" THEN [raised |-> patch.raised]
    ELSE
        LET points == filter_on_xyz(shuffled, box_reduced(bx, scales, offsets))
            npoints == Len(points)
            fields == DOMAIN patch.points[1]
            X == column(points, "X")
            Y == column(points, "Y")
            Z == column(points, "Z")
        IN  IF npoints = 0 THEN [raised |-> "ValueError"]
            ELSE IF "Red" \in fields /\ seq_max(column(points, "Red")) <= 255 /\ cast # ""
                 THEN [raised |-> cast]
            ELSE IF "Red" \notin fields /\ "Classification" \notin fields
                 THEN [raised |-> "ValueError"]
            ELSE
              [raised |-> "",
               header |->
                 << seq_min(X) * scales[1] + offsets[1] - bx.xmin,
                    seq_min(Y) * scales[2] + offsets[2] - bx.ymin,
                    seq_min(Z) * scales[3] + offsets[3] - bx.zmin,
                    seq_max(X) * scales[1] + offsets[1] - bx.xmin,
                    seq_max(Y) * scales[2] + offsets[2] - bx.ymin,
                    seq_max(Z) * scales[3] + offsets[3] - bx.zmin >>,
               quantized_points |->
                 [i \in 1..npoints |->
                    << points[i].X * scales[1] + offsets[1] - bx.xmin,
                       points[i].Y * scales[2] + offsets[2] - bx.ymin,
                       points[i].Z * scales[3] + offsets[3] - bx.zmin >>],
               rgb |->
                 IF "Red" \in fields
                 THEN IF seq_max(column(points, "Red")) > 255
                      THEN [i \in 1..npoints |->
                              << points[i].Red % 255, points[i].Green % 255,
                                 points[i].Blue % 255, 255 >>]
                      ELSE [i \in 1..npoints |->
                              << points[i].Red, points[i].Green, points[i].Blue, 0 >>]
                 ELSE classification_to_rgb(points)]

\* except TypeError: abort(404); any other exception leaves the handler
handle_uncaught(tile) ==
    IF tile.raised # "" THEN [status |-> "500", raised |-> tile.raised]
    ELSE [status |-> "200", tile |-> tile]

handle(tile) ==
    IF tile.raised = "TypeError" THEN [status |-> "404"]
    ELSE IF tile.raised # "" THEN [status |-> "500", raised |-> tile.raised]
    ELSE [status |-> "200", tile |-> tile]

\* ItownsRead, from the request to the response
itowns_read(s0, st, req, shuffled, cast) ==
    LET bbox_encoded == strip(req.bbox_encoded)
        l == Len(bbox_encoded)
        bx == decode_bbox(session_root(s0), int_digits(bbox_encoded))
        s == prepare_session_lod_threshold(s0)
        q == sql_query(s, l, req.isleaf)
        patch == read_uncompressed_patch(st.patch)
    IN  [session |-> s,
         response |-> handle(get_points(bx, st.offsets, st.scales, patch, shuffled, cast)),
         trace |-> [box |-> bx, lod |-> l, start |-> q.start, count |-> q.count]]

\* ------------------------------------------------------- model inputs
\* box coordinates are counted in units of 2^-(MaxAddr+1) of a grid step, so
\* that MaxAddr + 1 successive halvings are exact
Unit == Pow(2, MaxAddr + 1)

AxisRanges == {<<lo * Unit, (lo + w) * Unit>> : lo \in {-1, 0}, w \in {0, 1, 3}}

RootBoxes ==
    {the_bbox(x[1], y[1], z[1], x[2], y[2], z[2]) :
        x \in AxisRanges, y \in AxisRanges, z \in AxisRanges}

PatchSizes == {1, 8, 400}
\* patch counts of the datasets, in thousands of patches
KiloPatches == {10, 30, 57, 60, 200, 600, 3000}

\* Session(table, column) before prepare_session_lod_threshold has run
\* the dataset box; MaxHrcLod + DEPTH_MAX + 2 successive halvings are exact
BoxUnit == Pow(2, MaxHrcLod + DEPTH_MAX + 2)
DatasetBox == the_bbox(0, 0, 0, 3 * BoxUnit, BoxUnit, 2 * BoxUnit)

Sessions ==
    {[nbpoints |-> 1000 * m * p, patch_size |-> p, boundingbox |-> DatasetBox] :
        m \in KiloPatches, p \in PatchSizes}

\* point counts the store reports for a box
Big == 100000
Small == 3000
Few == 30

\* the rows the store returns for the 8 children of a node
ProfileDense == [i \in 1..8 |-> <<Big>>]
ProfileMixed == [i \in 1..8 |-> IF i \in {1, 4, 5} THEN <<Big>> ELSE IF i \in {2, 7} THEN <<Small>> ELSE <<>>]
ProfileSparse == [i \in 1..8 |-> IF i = 6 THEN <<Few>> ELSE IF i = 3 THEN <<0>> ELSE <<>>]
Profiles == {ProfileDense, ProfileMixed, ProfileSparse}

RootRows == {<<>>, <<Few>>, <<Big>>}

HrcStores ==
    {[root |-> r, levels |-> lv] : r \in RootRows, lv \in [1..(DEPTH_MAX + 1) -> Profiles]}

\* the wire address of the node of depth n on one path of the octree
WireAddress(n) == <<"r">> \o [i \in 1..n |-> DigitChar[((5 * i) % 8) + 1]]

HrcRequests == {[kind |-> "hrc", bbox_encoded |-> WireAddress(n)] : n \in 0..MaxHrcLod}

Prepared(s) == "psize_threshold1" \in DOMAIN s

Idle == [kind |-> "none"]

\* --------------------------------------------------- specification SpecBox
\* decode_bbox applied digit by digit to a root box
InitBox ==
    /\ box \in RootBoxes
    /\ path = <<>>
    /\ session = Idle /\ lod = -1 /\ psize = -1
    /\ store = Idle /\ request = Idle /\ response = Idle /\ trace = Idle

DecodeStep(numchild) ==
    /\ Len(path) < MaxAddr
    /\ box' = get_child(box, numchild)
    /\ path' = Append(path, numchild)
    /\ UNCHANGED <<session, lod, psize, store, request, response, trace>>

NextBox == \E numchild \in Digits : DecodeStep(numchild)

SpecBox == InitBox /\ [][NextBox]_vars

\* ------------------------------------------------- specification SpecPsize
\* the planner: thresholds cached on the session, then compute_psize
InitPsize ==
    /\ session \in Sessions
    /\ lod = -1 /\ psize = -1
    /\ box = Idle /\ path = <<>>
    /\ store = Idle /\ request = Idle /\ response = Idle /\ trace = Idle

PrepareSession ==
    /\ ~Prepared(session)
    /\ session' = prepare_session_lod_threshold(session)
    /\ UNCHANGED <<box, path, lod, psize, store, request, response, trace>>

ComputePsize(l) ==
    /\ Prepared(session)
    /\ lod' = l
    /\ psize' = compute_psize(session, l)
    /\ UNCHANGED <<box, path, session, store, request, response, trace>>

NextPsize == PrepareSession \/ \E l \in 0..MaxLod : ComputePsize(l)

SpecPsize == InitPsize /\ [][NextPsize]_vars

\* scale and offset of the stored patches; raw = (world - offset) / scale
ScaleOffsets ==
    { [scales |-> <<1, 1, 1>>, offsets |-> <<0, 0, 0>>],
      [scales |-> <<2, 2, 2>>, offsets |-> <<4, 0, -2>>] }

\* world positions: inside the dataset box and its child 5, on a face of the
\* dataset box, inside the dataset box only
WorldPoints ==
    { <<2 * BoxUnit, BoxUnit \div 4, 3 * (BoxUnit \div 2)>>,
      <<0, BoxUnit \div 4, BoxUnit \div 2>>,
      <<BoxUnit \div 2, BoxUnit \div 2, BoxUnit \div 2>> }

RawXYZ(w, so) ==
    [X |-> (w[1] - so.offsets[1]) \div so.scales[1],
     Y |-> (w[2] - so.offsets[2]) \div so.scales[2],
     Z |-> (w[3] - so.offsets[3]) \div so.scales[3]]

\* the point records of a schema: positions only, with a classification,
\* with colours
PointRecords(schema, so) ==
    CASE schema = "xyz" -> {RawXYZ(w, so) : w \in WorldPoints}
      [] schema = "class" ->
            {[X |-> RawXYZ(w, so).X, Y |-> RawXYZ(w, so).Y, Z |-> RawXYZ(w, so).Z,
              Classification |-> c] : w \in WorldPoints, c \in {2, 7}}
      [] schema = "rgb" ->
            {[X |-> RawXYZ(w, so).X, Y |-> RawXYZ(w, so).Y, Z |-> RawXYZ(w, so).Z,
              Red |-> c[1], Green |-> c[2], Blue |-> c[3]] :
                w \in WorldPoints, c \in {<<10, 20, 30>>, <<300, 255, 510>>}}

\* the row POINT_QUERY returns: NULL or one patch of one or two points
PatchRows(schema, so) ==
    {<<>>}
      \cup {<< <<a>> >> : a \in PointRecords(schema, so)}
      \cup {<< <<a, b>> >> : a, b \in PointRecords(schema, so)}

ReadStores ==
    UNION { UNION { {[patch |-> row, scales |-> so.scales, offsets |-> so.offsets] :
                        row \in PatchRows(schema, so)} :
                    schema \in {"xyz", "class", "rgb"} } :
            so \in ScaleOffsets }

ReadSessions ==
    {[nbpoints |-> 1000 * m * p, patch_size |-> p, boundingbox |-> DatasetBox] :
        m \in {10, 60}, p \in PatchSizes}

ReadRequests ==
    {[kind |-> "read", bbox_encoded |-> WireAddress(n), isleaf |-> leaf] :
        n \in 0..MaxHrcLod, leaf \in BOOLEAN}

Permutations(seq) ==
    {<<>> \o [i \in 1..Len(seq) |-> seq[f[i]]] :
        f \in {g \in [1..Len(seq) -> 1..Len(seq)] : \A i, j \in 1..Len(seq) : g[i] = g[j] => i = j}}

\* -------------------------------------------------- specification SpecRead
\* one tile request served by ItownsRead
InitRead ==
    /\ session \in ReadSessions
    /\ store \in ReadStores
    /\ request \in ReadRequests
    /\ response = Idle /\ trace = Idle
    /\ box = Idle /\ path = <<>> /\ lod = -1 /\ psize = -1

ItownsRead ==
    /\ request.kind = "read"
    /\ response = Idle
    /\ \E shuffled \in (IF store.patch = <<>> THEN {<<>>} ELSE Permutations(store.patch[1])),
          cast \in CastOutcomes :
         \E r \in {itowns_read(session, store, request, shuffled, cast)} :
           /\ session' = r.session
           /\ response' = r.response
           /\ trace' = r.trace
    /\ UNCHANGED <<box, path, lod, psize, store, request>>

NextRead == ItownsRead

SpecRead == InitRead /\ [][NextRead]_vars

\* ------------------------------------------------------ specification Spec
\* one hierarchy request served by ItownsHrc
Init ==
    /\ session \in Sessions
    /\ store \in HrcStores
    /\ request \in HrcRequests
    /\ response = Idle /\ trace = Idle
    /\ box = Idle /\ path = <<>> /\ lod = -1 /\ psize = -1

ItownsHrc ==
    /\ request.kind = "hrc"
    /\ response = Idle
    /\ \E r \in {itowns_hrc(session, store, request)} :
           /\ session' = r.session
           /\ response' = r.response
           /\ trace' = r.trace
    /\ UNCHANGED <<box, path, lod, psize, store, request>>

Next == ItownsHrc

Spec == Init /\ [][Next]_vars

\* ------------------------------------------------------------ claims C1-C3
Bit(n, i) == (n \div Pow(2, i)) % 2

\* the octant of parent that takes the high half of an axis iff its flag is 1
Octant(parent, hx, hy, hz) ==
    LET mx == parent.xmin + (parent.xmax - parent.xmin) \div 2
        my == parent.ymin + (parent.ymax - parent.ymin) \div 2
        mz == parent.zmin + (parent.zmax - parent.zmin) \div 2
    IN  the_bbox(IF hx = 1 THEN mx ELSE parent.xmin,
                 IF hy = 1 THEN my ELSE parent.ymin,
                 IF hz = 1 THEN mz ELSE parent.zmin,
                 IF hx = 1 THEN parent.xmax ELSE mx,
                 IF hy = 1 THEN parent.ymax ELSE my,
                 IF hz = 1 THEN parent.zmax ELSE mz)

\* C1 as stated: bit0 (value 1) of the index selects the X half, bit1 the Y
\* half and bit2 (value 4) the Z half of the parent
C1_BitsXYZ ==
    \A index \in Digits :
        get_child(box, index) = Octant(box, Bit(index, 0), Bit(index, 1), Bit(index, 2))

\* C1 amended: bit0 (value 1) of the index selects the Z half, bit1 the Y half
\* and bit2 (value 4) the X half; index 1 is the box with high Z and low X, Y,
\* index 4 the box with high X and low Y, Z; 0 is the all-low and 7 the
\* all-high corner
C1_BitsZYX ==
    /\ \A index \in Digits :
        get_child(box, index) = Octant(box, Bit(index, 2), Bit(index, 1), Bit(index, 0))
    /\ get_child(box, 1) = Octant(box, 0, 0, 1)
    /\ get_child(box, 4) = Octant(box, 1, 0, 0)
    /\ get_child(box, 0) = Octant(box, 0, 0, 0)
    /\ get_child(box, 7) = Octant(box, 1, 1, 1)

\* a box reached by descending into child 1 of a box with thickness on X and Z
C1_Witness ==
    /\ path # <<>>
    /\ path[Len(path)] = 1
    /\ box.xmin < box.xmax
    /\ box.zmin < box.zmax

Volume(b) == (b.xmax - b.xmin) * (b.ymax - b.ymin) * (b.zmax - b.zmin)

\* the interiors of a and b intersect
Overlap(a, b) ==
    /\ Max(a.xmin, b.xmin) < Min(a.xmax, b.xmax)
    /\ Max(a.ymin, b.ymin) < Min(a.ymax, b.ymax)
    /\ Max(a.zmin, b.zmin) < Min(a.zmax, b.zmax)

Inside(c, p) ==
    /\ p.xmin <= c.xmin /\ c.xmin <= c.xmax /\ c.xmax <= p.xmax
    /\ p.ymin <= c.ymin /\ c.ymin <= c.ymax /\ c.ymax <= p.ymax
    /\ p.zmin <= c.zmin /\ c.zmin <= c.zmax /\ c.zmax <= p.zmax

RECURSIVE SumVolumes(_, _)
SumVolumes(parent, n) ==
    IF n = 0 THEN 0 ELSE Volume(get_child(parent, n - 1)) + SumVolumes(parent, n - 1)

\* C2: the 8 children of a box with min <= max on each axis are pairwise
\* non-overlapping, each lies inside the parent, and their volumes sum exactly
\* to the volume of the parent
C2_Partition ==
    /\ \A i, j \in Digits : i # j => ~Overlap(get_child(box, i), get_child(box, j))
    /\ \A i \in Digits : Inside(get_child(box, i), box)
    /\ SumVolumes(box, 8) = Volume(box)

\* a decoded (non-root) box of positive volume is split
C2_Witness == path # <<>> /\ Volume(box) > 0

\* psize(lod) as the planner's three regimes describe it
Regime(t1, t2, l) ==
    IF l <= t1 THEN 0
    ELSE IF l <= t2 THEN 1
    ELSE Pow(8, l - (IF t2 >= 0 THEN t2 + 1 ELSE 0))

\* C3: with the cached thresholds -1 <= threshold1 <= threshold2, compute_psize
\* is 0 up to threshold1, 1 up to threshold2 and 8^(lod - (threshold2+1 if
\* threshold2 >= 0 else 0)) beyond; it is non-decreasing in lod beyond
\* threshold2, and with both thresholds -1 it is 1, 8, 64 at lod 0, 1, 2
C3_Psize ==
    Prepared(session) =>
        LET t1 == session.psize_threshold1
            t2 == session.psize_threshold2
        IN  /\ -1 <= t1 /\ t1 <= t2
            /\ lod >= 0 => psize = Regime(t1, t2, lod)
            /\ lod >= 0 /\ lod <= t1 => psize = 0
            /\ lod >= 0 /\ t1 < lod /\ lod <= t2 => psize = 1
            /\ \A l \in 0..MaxLod :
                  l > t2 => compute_psize(session, l) <= compute_psize(session, l + 1)
            /\ (t1 = -1 /\ t2 = -1) =>
                  /\ compute_psize(session, 0) = 1
                  /\ compute_psize(session, 1) = 8
                  /\ compute_psize(session, 2) = 64

\* compute_psize has answered for a skipped level
C3_Witness == Prepared(session) /\ lod >= 0 /\ lod <= session.psize_threshold1

\* ----------------------------------------------------------- claims C4-C9
Done == response # Idle

\* the value of an address read as an octal number
RECURSIVE Octal(_)
Octal(name) ==
    IF name = <<>> THEN 0 ELSE 8 * Octal(SubSeq(name, 1, Len(name) - 1)) + name[Len(name)]

\* a comes before b in ascending (address length, address) order
Before(a, b) == Len(a) < Len(b) \/ (Len(a) = Len(b) /\ Octal(a) < Octal(b))

Recorded == {trace.buffer[k].name : k \in 1..Len(trace.buffer)}

\* the 1-based position of the record of `name` in a buffer listing the
\* recorded nodes in ascending order
Rank(name) == 1 + Cardinality({n \in Recorded : Before(n, name)})

RecordAt(k) == SubSeq(response.output, 5 * (k - 1) + 1, 5 * k)

\* the children for which get_numpoints returned a nonzero count
ReturnedNonzero ==
    {trace.calls[k].name : k \in {j \in 1..Len(trace.calls) : trace.calls[j].ret # 0}}

\* C4: the bitmask byte written for a recorded node has bit i (LSB = bit 0)
\* set if and only if the estimator returned a nonzero count for child i
C4_Bitmask ==
    (Done /\ response.status = "200") =>
        \E present \in {ReturnedNonzero} :
            \A k \in 1..Len(trace.buffer) :
                LET name == trace.buffer[k].name
                    byte == RecordAt(Rank(name))[1]
                IN  \A i \in Digits : (Bit(byte, i) = 1) <=> (Append(name, i) \in present)

\* a node is written whose children are partly present and partly absent
C4_Witness ==
    /\ Done /\ response.status = "200"
    /\ \E k \in 1..Len(trace.buffer) :
          /\ RecordAt(k)[1] \notin {0, 255}
          /\ RecordAt(k)[1] # bitmask_unreversed(dict_get(trace.buffer, sorted(dict_keys(trace.buffer))[k]).bitarray)

Uint32(bytes) == bytes[1] + 256 * bytes[2] + 65536 * bytes[3] + 16777216 * bytes[4]

Reverse(seq) == <<>> \o [i \in 1..Len(seq) |-> seq[Len(seq) + 1 - i]]

\* the odd positions of seq followed by the even ones
Riffle(seq) ==
    LET n == Len(seq)
        odd == (n + 1) \div 2
    IN  <<>> \o [i \in 1..n |-> IF i <= odd THEN seq[2 * i - 1] ELSE seq[2 * (i - odd)]]

\* C5: the hierarchy buffer holds exactly one record per recorded node, in
\* ascending (address length, address) order, and is the same byte sequence
\* for other insertion orders of the same entries
C5_SortedOutput ==
    (Done /\ response.status = "200") =>
        /\ Cardinality(Recorded) = Len(trace.buffer)
        /\ Len(response.output) = 5 * Cardinality(Recorded)
        /\ \A k \in 1..Len(trace.buffer) :
              LET e == trace.buffer[k]
                  rec == RecordAt(Rank(e.name))
              IN  /\ \A i \in Digits : Bit(rec[1], i) = e.bitarray[i + 1]
                  /\ Uint32(SubSeq(rec, 2, 5)) = e.n
        /\ serialize(Reverse(trace.buffer)).output = response.output
        /\ serialize(Riffle(trace.buffer)).output = response.output

\* several nodes of the same depth were recorded, inserted before their parent
C5_Witness ==
    /\ Done /\ response.status = "200"
    /\ Len(trace.buffer) >= 10
    /\ Reverse(trace.buffer) # trace.buffer
    /\ dict_keys(trace.buffer) # sorted(dict_keys(trace.buffer))

\* the store queries issued by the traversal octree(session, 0, 2, ...)
NumQueries == Cardinality({k \in 1..Len(trace.calls) : trace.calls[k].queried})

\* C7 as stated: the traversal issues at most 8^depth_max = 64 store queries
C7_AtMost64 == Done => NumQueries <= Pow(8, DEPTH_MAX)

\* C7 amended: the traversal issues at most 8 + 8^2 + 8^3 = 584 store
\* queries, at most 8 for each node of relative depth 0..depth_max it records
C7_AtMost584 ==
    Done =>
        /\ NumQueries <= 8 + 64 + 512
        /\ NumQueries <= 8 * Len(trace.buffer)
        /\ \A k \in 1..Len(trace.calls) : Len(trace.calls[k].name) <= DEPTH_MAX + 1

\* every node down to relative depth 2 was subdivided with a store query each
C7_Witness == Done /\ NumQueries = 584

\* the remaining-points estimate of a visited node is below the leaf limit
BelowLeafLimit(v) ==
    LET ps == compute_psize(session, v.lod)
    IN  /\ ps > 0
        /\ v.npoints * session.patch_size - v.npoints * sum_psize(session, v.lod)
              < NODE_POINT_LIMIT * ps

\* int(remainingPoints) of a visited node with psize > 0
Remaining(v) ==
    LET ps == compute_psize(session, v.lod)
        num == v.npoints * (session.patch_size - sum_psize(session, v.lod))
    IN  IF num >= 0 THEN num \div ps ELSE -((-num) \div ps)

IsPrefix(a, b) == Len(a) < Len(b) /\ SubSeq(b, 1, Len(a)) = a

Called == {trace.calls[k].name : k \in 1..Len(trace.calls)}

\* C8: a node whose estimate is below the leaf limit is recorded as (all-zero
\* bitmask, remainingPoints), none of its children is examined and no
\* descendant is recorded; a node of a skipped level (psize = 0) is never a
\* leaf and has its 8 children examined
C8_Leaf ==
    Done =>
        \E called \in {Called} :
            \A k \in 1..Len(trace.visits) :
                LET v == trace.visits[k]
                    e == dict_get(trace.buffer, v.name)
                IN  /\ v.name \in Recorded
                    /\ BelowLeafLimit(v) =>
                          /\ e.bitarray = [i \in 1..8 |-> 0]
                          /\ e.n = Remaining(v)
                          /\ \A c \in called : ~IsPrefix(v.name, c)
                          /\ \A n \in Recorded : ~IsPrefix(v.name, n)
                    /\ compute_psize(session, v.lod) = 0 =>
                          /\ ~BelowLeafLimit(v)
                          /\ \A i \in Digits : Append(v.name, i) \in called

\* a leaf above the maximum depth whose children hold points in the store, in
\* a traversal that also crossed a skipped level
C8_Witness ==
    /\ Done
    /\ \E k \in 1..Len(trace.visits) :
          /\ BelowLeafLimit(trace.visits[k])
          /\ trace.visits[k].depth < DEPTH_MAX
          /\ trace.visits[k].npoints > 0
          /\ OrZero(StoreCount(store, Append(trace.visits[k].name, 0))) > 0
    /\ \E k \in 1..Len(trace.visits) : compute_psize(session, trace.visits[k].lod) = 0

\* C9: every point count octree() records is a valid unsigned 32-bit value,
\* so packing never fails; the leaf estimate is never negative
C9_Packable ==
    Done =>
        /\ response.status = "200"
        /\ \A k \in 1..Len(trace.buffer) : trace.buffer[k].n >= 0

\* C6: a tile request whose store query returns no points (a NULL patch
\* union) ends in the 404 outcome, never in a fatal error, and returns no
\* tile buffer
C6_NotFound ==
    (Done /\ request.kind = "read" /\ store.patch = <<>>) =>
        /\ response.status = "404"
        /\ "tile" \notin DOMAIN response

\* a tile request was served from a store that had no patch for it
C6_Witness ==
    /\ Done /\ request.kind = "read" /\ store.patch = <<>>
    /\ response.status # "200"

\* the positions of a patch that the tile of depth l serves
Slice(l) ==
    LET q == sql_query(session, l, FALSE) IN q.start .. (q.start + q.count - 1)

\* C10: the slice of a non-leaf tile has count >= 0, overlaps the slice of no
\* other depth, and is the slice the estimator counts for the same depth
C10_Slices ==
    (Done /\ request.kind = "read" /\ ~request.isleaf) =>
        /\ trace.count >= 0
        /\ \A l \in 0..(MaxHrcLod + 1) :
              l # trace.lod => (trace.start .. (trace.start + trace.count - 1)) \cap Slice(l) = {}
        /\ compute_psize(session, trace.lod) > 0 =>
              /\ numpoints_range(session, trace.lod, session.patch_size).start = trace.start
              /\ numpoints_range(session, trace.lod, session.patch_size).count = trace.count

====
